---- MODULE Spec2Model ----
(***************************************************************************)
(* rui: the event loop of src/event_loop.rs.                               *)
(*                                                                         *)
(*   - build_menubar / make_menu_rec: the menu compiler (MenuSpec)         *)
(*   - the closure handed to event_loop.run: one action per match arm      *)
(*       Spec         the work queue drain, close, update and render       *)
(*       SurfaceSpec  the surface configuration (startup, resize, redraw)  *)
(*       PointerSpec  mouse buttons and cursor moves                       *)
(***************************************************************************)
EXTENDS Integers, Sequences, FiniteSets, TLC

VARIABLES
    \* build_menubar
    commands,          \* Vec<CommandInfo> collected at startup (line 207)
    items,             \* the arena Vec<MenuItem2> of build_menubar, index 0 = root
    menu,              \* the Menu returned by build_menubar
    command_map,       \* HashMap<MenuId, String>
    built,             \* set_menu(build_menubar(..)) has run (line 213)
    \* event loop and work queue
    control_flow,      \* *control_flow
    exiting,           \* the loop has seen ControlFlow::Exit (it is sticky)
    destroyed,         \* LoopDestroyed was delivered, run() is over
    pc,                \* where the loop thread is
    cur,               \* the work item f popped by the drain, None or Some(f)
    lock,              \* owner of the GLOBAL_WORK_QUEUE mutex
    queue,             \* GLOBAL_WORK_QUEUE
    wakes,             \* UserEvent(()) sent through the proxy, not yet delivered
    tpc,               \* where each background thread is inside on_main
    appended,          \* ids of the items in the order they were pushed
    executed,          \* ids of the items in the order f(&mut cx) started
    \* surface
    config,            \* wgpu::SurfaceConfiguration (width, height)
    surface,           \* the configuration surface.configure was last given
    redraw_requested,  \* request_redraw() pending
    rendered,          \* the (width, height) cx.render was last given
    last,              \* the event the closure handled last
    \* pointer
    scale_factor,      \* window.scale_factor()
    mouse_position,    \* let mut mouse_position (line 205)
    mouse_button,      \* cx.mouse_button
    dispatched         \* the events given to cx.process, in order

menuVars    == <<commands, items, menu, command_map, built>>
loopVars    == <<control_flow, exiting, destroyed, pc, cur, lock, queue, wakes,
                 tpc, appended, executed>>
surfaceVars == <<config, surface, redraw_requested, rendered>>
pointerVars == <<scale_factor, mouse_position, mouse_button, dispatched>>
vars        == <<menuVars, loopVars, surfaceVars, pointerVars, last>>

\* Option<T>
None    == <<>>
Some(x) == <<x>>

Min(S) == CHOOSE x \in S : \A y \in S : x <= y
Max2(a, b) == IF a >= b THEN a ELSE b

\* ------------------------------------------------------------------------
\* Bounds
MaxDepth == 2       \* segments of a command path
MaxCmds  == 2       \* commands in the list
MaxItems == 3       \* work items pushed in a run
MaxDim   == 2       \* window widths and heights 0..MaxDim
MaxPos   == 1       \* device coordinates of the cursor 0..MaxPos
MaxLog   == 3       \* events given to cx.process in a run
MaxEvents == 1      \* commands or key presses given to cx.process in a run

\* ------------------------------------------------------------------------
\* Command paths: strings of characters, ':' is the delimiter
Delim == ":"
Names == {<<"a">>, <<"b">>}

\* the names joined by ':'
RECURSIVE Join(_)
Join(names) ==
    IF Len(names) = 0 THEN <<>>
    ELSE IF Len(names) = 1 THEN names[1]
    ELSE names[1] \o <<Delim>> \o Join(Tail(names))

\* the paths of 1..MaxDepth names, and the empty path (one empty segment)
Paths    == {<<>>} \cup {Join(ns) : ns \in UNION {[1..n -> Names] : n \in 1..MaxDepth}}
KeyCodes == {"KeyA"}
CommandInfo  == [path : Paths, key : {None} \cup {Some(k) : k \in KeyCodes}]
CommandLists == UNION {[1..n -> CommandInfo] : n \in 0..MaxCmds}

\* str::split(':'): the segments between delimiters, empty ones included
RECURSIVE SplitFrom(_, _, _, _)
SplitFrom(s, i, seg, acc) ==
    IF i > Len(s) THEN Append(acc, seg)
    ELSE IF s[i] = Delim THEN SplitFrom(s, i + 1, <<>>, Append(acc, seg))
    ELSE SplitFrom(s, i + 1, Append(seg, s[i]), acc)

Split(s) == SplitFrom(s, 1, <<>>, <<>>)

\* ------------------------------------------------------------------------
\* build_menubar

RootItem ==
    [name |-> <<"r", "o", "o", "t">>, submenu |-> <<>>,
     command |-> [path |-> <<>>, key |-> None]]

ItemsLen(its) == Cardinality(DOMAIN its)

\* a mutant: the search never finds the child
FindChildNever(its, v, name) == None

\* items[v].submenu.iter().find(|x| items[**x].name == name)
FindChild(its, v, name) ==
    LET sub  == its[v].submenu
        hits == {k \in 1..Len(sub) : its[sub[k]].name = name}
    IN IF hits = {} THEN None ELSE Some(sub[Min(hits)])

\* MenuItem2 { name: name.into(), submenu: vec![], command: command.clone() }
NewItem(name, command) ==
    [name |-> name, submenu |-> <<>>, command |-> command]

\* a mutant: a child that is found takes the command of the path being walked
DescendLastWins(st, name, command) ==
    LET found == FindChild(st.items, st.v, name)
    IN IF found # None
       THEN [items |-> [st.items EXCEPT ![found[1]].command = command], v |-> found[1]]
       ELSE LET n == ItemsLen(st.items)
                pushed == [st.items EXCEPT ![st.v].submenu = Append(@, n)]
            IN [items |-> pushed @@ (n :> NewItem(name, command)), v |-> n]

\* one iteration of `for name in command.path.split(':')`
Descend(st, name, command) ==
    LET found == FindChild(st.items, st.v, name)
    IN IF found # None
       THEN [items |-> st.items, v |-> found[1]]
       ELSE LET n == ItemsLen(st.items)
                pushed == [st.items EXCEPT ![st.v].submenu = Append(@, n)]
            IN [items |-> pushed @@ (n :> NewItem(name, command)), v |-> n]

RECURSIVE WalkPath(_, _, _, _)
WalkPath(st, names, k, command) ==
    IF k > Len(names) THEN st.items
    ELSE WalkPath(Descend(st, names[k], command), names, k + 1, command)

RECURSIVE AddCommands(_, _, _)
AddCommands(its, cmds, c) ==
    IF c > Len(cmds) THEN its
    ELSE AddCommands(WalkPath([items |-> its, v |-> 0], Split(cmds[c].path), 1, cmds[c]),
                     cmds, c + 1)

BuildItems(cmds) == AddCommands((0 :> RootItem), cmds, 1)

\* ------------------------------------------------------------------------
\* make_menu_rec

AppName == <<"r", "u", "i">>

AppMenu ==
    << [kind |-> "native", item |-> "About"], [kind |-> "native", item |-> "Quit"] >>

\* a mutant: the application submenu is not added
RootMenuEmpty(i) == <<>>

\* let mut menu = Menu::new(); if i == 0 { ... menu.add_submenu("rui", true, app_menu) }
RootMenu(i) ==
    IF i = 0
    THEN << [kind |-> "submenu", name |-> AppName, enabled |-> TRUE, menu |-> AppMenu] >>
    ELSE <<>>

\* command_map.insert(id, path)
Insert(m, id, path) ==
    [x \in DOMAIN m \cup {id} |-> IF x = id THEN path ELSE m[x]]

\* a mutant: the map records the item's own name, not the command's path
LeafPathName(item) == item.name

\* item.command.path.clone()
LeafPath(item) == item.command.path

\* the accelerator of a leaf: SUPER + key when the command has one
LeafAccel(item) ==
    IF item.command.key # None
    THEN Some([mods |-> "SUPER", key |-> item.command.key[1]])
    ELSE None

\* menu.add_item(attrs).id(): every item added has an identity of its own
RECURSIVE MakeMenuRec(_, _, _, _)
RECURSIVE AddChildren(_, _, _, _)
AddChildren(its, i, k, acc) ==
    IF k > Len(its[i].submenu) THEN acc
    ELSE LET j    == its[i].submenu[k]
             item == its[j]
         IN IF item.submenu # <<>>
            THEN LET sub == MakeMenuRec(its, j, acc.command_map, acc.next_id)
                 IN AddChildren(its, i, k + 1,
                        [menu |-> Append(acc.menu,
                                     [kind |-> "submenu", name |-> item.name,
                                      enabled |-> TRUE, menu |-> sub.menu]),
                         command_map |-> sub.command_map,
                         next_id |-> sub.next_id])
            ELSE LET id == acc.next_id
                 IN AddChildren(its, i, k + 1,
                        [menu |-> Append(acc.menu,
                                     [kind |-> "item", name |-> item.name,
                                      accel |-> LeafAccel(item), id |-> id]),
                         command_map |-> Insert(acc.command_map, id, LeafPath(item)),
                         next_id |-> id + 1])

MakeMenuRec(its, i, cmap, next_id) ==
    AddChildren(its, i, 1, [menu |-> RootMenu(i), command_map |-> cmap, next_id |-> next_id])

\* ------------------------------------------------------------------------
\* Startup of rui(): the values before the loop runs

InitMenu ==
    /\ commands \in CommandLists
    /\ items = (0 :> RootItem)
    /\ menu = <<>>
    /\ command_map = <<>>
    /\ built = FALSE

\* cx.window.set_menu(Some(build_menubar(&commands, &mut command_map)))
BuildMenubar ==
    /\ ~built
    /\ LET its == BuildItems(commands)
           m   == MakeMenuRec(its, 0, <<>>, 1)
       IN /\ items' = its
          /\ menu' = m.menu
          /\ command_map' = m.command_map
    /\ built' = TRUE
    /\ UNCHANGED commands

\* ------------------------------------------------------------------------
\* The state rui() leaves before event_loop.run

TypicalSize == [width |-> 1, height |-> 1]

Threads == {"t1", "t2"}

Zero == [x |-> <<0, 1>>, y |-> <<0, 1>>]

InitMenuBuilt ==
    /\ commands = <<>>
    /\ items = BuildItems(<<>>)
    /\ menu = MakeMenuRec(BuildItems(<<>>), 0, <<>>, 1).menu
    /\ command_map = <<>>
    /\ built = TRUE

InitLoopIdle ==
    /\ control_flow = "Poll"
    /\ exiting = FALSE
    /\ destroyed = FALSE
    /\ pc = "idle"
    /\ cur = None
    /\ lock = "none"
    /\ queue = <<>>
    /\ wakes = 0
    /\ tpc = [t \in Threads |-> "idle"]
    /\ appended = <<>>
    /\ executed = <<>>

InitSurfaceIdle ==
    /\ config = TypicalSize
    /\ surface = TypicalSize
    /\ redraw_requested = FALSE
    /\ rendered = None

InitPointerIdle ==
    /\ scale_factor = 1
    /\ mouse_position = Zero
    /\ mouse_button = None
    /\ dispatched = <<>>

\* ------------------------------------------------------------------------
\* event_loop.run(move |event, _, control_flow| { ... })
\*
\* The loop calls the closure once per event, on the loop thread, never
\* re-entrantly.  ControlFlow::Exit is sticky: once the closure has set it the
\* loop keeps it whatever the closure writes later, still hands the closure
\* the events of the iteration in flight, then LoopDestroyed, and ends.

Running    == ~destroyed /\ pc # "panic"
Delivering == Running /\ pc = "idle"

queueVars == <<cur, lock, queue, wakes, tpc, appended, executed>>

\* `*control_flow = ControlFlow::Wait` (line 225) and the return to the loop
Handled(ev) ==
    /\ control_flow' = (IF exiting THEN "Exit" ELSE "Wait")
    /\ last' = ev
    /\ UNCHANGED <<exiting, destroyed, pc>>

\* WindowEvent::CloseRequested
CloseRequested ==
    /\ Delivering
    /\ control_flow' = "Exit"
    /\ exiting' = TRUE
    /\ last' = [type |-> "CloseRequested"]
    /\ UNCHANGED <<destroyed, pc, queueVars, menuVars, surfaceVars, pointerVars>>

\* Event::LoopDestroyed falls in `_ => ()`; the loop ends after it
LoopDestroyed ==
    /\ Delivering
    /\ exiting
    /\ destroyed' = TRUE
    /\ last' = [type |-> "LoopDestroyed"]
    /\ UNCHANGED <<control_flow, exiting, pc, queueVars, menuVars, surfaceVars, pointerVars>>

\* ------------------------------------------------------------------------
\* The work queue

\* on_main(f): GLOBAL_WORK_QUEUE.lock().unwrap().push_back(f)
OnMainPush(t, calls_on_main) ==
    /\ Running
    /\ tpc[t] = "idle"
    /\ Len(appended) < MaxItems
    /\ lock = "none"
    /\ LET id == Len(appended) + 1
       IN /\ queue' = Append(queue, [id |-> id, calls_on_main |-> calls_on_main])
          /\ appended' = Append(appended, id)
    /\ tpc' = [tpc EXCEPT ![t] = "wake"]
    /\ UNCHANGED <<control_flow, exiting, destroyed, pc, cur, lock, wakes, executed,
                   menuVars, surfaceVars, pointerVars, last>>

\* on_main(f): proxy.send_event(())
OnMainWake(t) ==
    /\ Running
    /\ tpc[t] = "wake"
    /\ wakes' = wakes + 1
    /\ tpc' = [tpc EXCEPT ![t] = "idle"]
    /\ UNCHANGED <<control_flow, exiting, destroyed, pc, cur, lock, queue, appended,
                   executed, menuVars, surfaceVars, pointerVars, last>>

\* WEvent::UserEvent(_): the closure enters the drain
UserEvent ==
    /\ Delivering
    /\ wakes > 0
    /\ wakes' = wakes - 1
    /\ control_flow' = "Wait"
    /\ pc' = "drain"
    /\ last' = [type |-> "UserEvent"]
    /\ UNCHANGED <<exiting, destroyed, cur, lock, queue, tpc, appended, executed,
                   menuVars, surfaceVars, pointerVars>>

\* a mutant: the drain takes the newest item
PopBack(q) ==
    IF q = <<>> THEN [f |-> None, rest |-> q]
    ELSE [f |-> Some(q[Len(q)]), rest |-> SubSeq(q, 1, Len(q) - 1)]

\* VecDeque::pop_front
PopFront(q) ==
    IF q = <<>> THEN [f |-> None, rest |-> q]
    ELSE [f |-> Some(Head(q)), rest |-> Tail(q)]

\* The MutexGuard of GLOBAL_WORK_QUEUE.lock().unwrap() is a temporary of the
\* scrutinee of `while let`: it is dropped at the end of the loop body, so the
\* loop thread owns the mutex while f(&mut cx) runs.
LockInBody == "loop"

\* while let Some(f) = GLOBAL_WORK_QUEUE.lock().unwrap().pop_front() { f(&mut cx)
DrainPop ==
    /\ Running
    /\ pc = "drain"
    /\ lock = "none"
    /\ LET popped == PopFront(queue)
       IN /\ queue' = popped.rest
          /\ cur' = popped.f
          /\ IF popped.f # None
             THEN /\ lock' = LockInBody
                  /\ pc' = "exec"
                  /\ executed' = Append(executed, popped.f[1].id)
                  /\ UNCHANGED control_flow
             ELSE /\ lock' = "none"
                  /\ pc' = "idle"
                  /\ control_flow' = (IF exiting THEN "Exit" ELSE control_flow)
                  /\ UNCHANGED executed
    /\ UNCHANGED <<exiting, destroyed, wakes, tpc, appended,
                   menuVars, surfaceVars, pointerVars, last>>

\* f(&mut cx) returns: the end of the loop body drops the guard
ItemReturns ==
    /\ Running
    /\ pc = "exec"
    /\ ~cur[1].calls_on_main
    /\ lock' = (IF lock = "loop" THEN "none" ELSE lock)
    /\ cur' = None
    /\ pc' = "drain"
    /\ UNCHANGED <<control_flow, exiting, destroyed, queue, wakes, tpc, appended, executed,
                   menuVars, surfaceVars, pointerVars, last>>

\* f(&mut cx) calls on_main on the loop thread.  std::sync::Mutex::lock on a
\* mutex the calling thread holds never returns: it deadlocks or panics.
ItemCallsOnMain ==
    /\ Running
    /\ pc = "exec"
    /\ cur[1].calls_on_main
    /\ IF lock = "loop"
       THEN /\ pc' \in {"deadlock", "panic"}
            /\ UNCHANGED <<cur, queue, wakes, appended>>
       ELSE /\ lock = "none"
            /\ Len(appended) < MaxItems
            /\ queue' = Append(queue, [id |-> Len(appended) + 1, calls_on_main |-> FALSE])
            /\ appended' = Append(appended, Len(appended) + 1)
            /\ wakes' = wakes + 1
            /\ cur' = Some([cur[1] EXCEPT !.calls_on_main = FALSE])
            /\ UNCHANGED pc
    /\ UNCHANGED <<control_flow, exiting, destroyed, lock, tpc, executed,
                   menuVars, surfaceVars, pointerVars, last>>

\* ------------------------------------------------------------------------
\* Update and render

\* WEvent::MainEventsCleared: cx.update(&view, ..)
MainEventsCleared ==
    /\ Delivering
    /\ Handled([type |-> "MainEventsCleared"])
    /\ UNCHANGED <<queueVars, menuVars, surfaceVars, pointerVars>>

\* a mutant: the render is given a configuration of its own and not the one
\* the resizes keep
RenderConfigFixed(cfg) == TypicalSize

\* &config as cx.render receives it: the closure's one SurfaceConfiguration
RenderConfig(cfg) == cfg

\* WEvent::RedrawRequested(_): cx.render(&device, &surface, &config, ..)
RedrawRequested ==
    /\ Delivering
    /\ rendered' = Some(RenderConfig(config))
    /\ redraw_requested' = FALSE
    /\ Handled([type |-> "RedrawRequested"])
    /\ UNCHANGED <<queueVars, menuVars, config, surface, pointerVars>>

\* ------------------------------------------------------------------------
\* The surface configuration

\* a mutant: the size is stored as it came
ClampNone(n) == n

\* u32::max(1)
Clamp(n) == Max2(n, 1)

ResizeKinds == {"Resized", "ScaleFactorChanged"}

\* WindowEvent::Resized(size) | WindowEvent::ScaleFactorChanged { new_inner_size, .. }
Resized(kind, w, h) ==
    /\ Delivering
    /\ config' = [width |-> Clamp(w), height |-> Clamp(h)]
    /\ surface' = config'
    /\ redraw_requested' = TRUE
    /\ Handled([type |-> kind, width |-> w, height |-> h])
    /\ UNCHANGED <<queueVars, menuVars, rendered, pointerVars>>

\* ------------------------------------------------------------------------
\* The pointer

Buttons == {"Left", "Right", "Middle", "Other"}

\* match button { Left => Some(Left), Right => Some(Right), Middle => Some(Center), _ => None }
TrackedButton(button) ==
    CASE button = "Left"   -> Some("Left")
      [] button = "Right"  -> Some("Right")
      [] button = "Middle" -> Some("Center")
      [] OTHER             -> None

TouchBegin(position) == [type |-> "TouchBegin", id |-> 0, position |-> position]

\* a mutant: the release is reported at the origin
TouchEndAtOrigin(position) == [type |-> "TouchEnd", id |-> 0, position |-> Zero]

TouchEnd(position) == [type |-> "TouchEnd", id |-> 0, position |-> position]

TouchMove(position) == [type |-> "TouchMove", id |-> 0, position |-> position]

\* cx.process(&view, &event, &mut vger)
Process(event) == dispatched' = Append(dispatched, event)

\* WindowEvent::MouseInput { state, button, .. }
MouseInput(state, button) ==
    /\ Delivering
    /\ Len(dispatched) < MaxLog
    /\ IF state = "Pressed"
       THEN /\ mouse_button' = TrackedButton(button)
            /\ Process(TouchBegin(mouse_position))
       ELSE /\ mouse_button' = None
            /\ Process(TouchEnd(mouse_position))
    /\ Handled([type |-> "MouseInput", state |-> state, button |-> button])
    /\ UNCHANGED <<queueVars, menuVars, surfaceVars, scale_factor, mouse_position>>

\* n / d as a fraction in lowest terms, d is 1 or 2
Div(n, d) == IF n % d = 0 THEN <<n \div d, 1>> ELSE <<n, d>>

\* [position.x as f32 / scale, (config.height as f32 - position.y as f32) / scale]
LocalPoint(x, y, scale, height) ==
    [x |-> Div(x, scale), y |-> Div(height - y, scale)]

\* WindowEvent::CursorMoved { position, .. }
CursorMoved(x, y) ==
    /\ Delivering
    /\ Len(dispatched) < MaxLog
    /\ mouse_position' = LocalPoint(x, y, scale_factor, config.height)
    /\ Process(TouchMove(mouse_position'))
    /\ Handled([type |-> "CursorMoved", x |-> x, y |-> y])
    /\ UNCHANGED <<queueVars, menuVars, surfaceVars, scale_factor, mouse_button>>

\* command_map.get(&menu_id) that answers with a command of its own when the
\* id is not in the map
CommandMapGetOrDefault(m, id) == IF id \in DOMAIN m THEN Some(m[id]) ELSE Some(<<>>)

\* command_map.get(&menu_id)
CommandMapGet(m, id) == IF id \in DOMAIN m THEN Some(m[id]) ELSE None

\* Event::Command(command.clone())
Command(path) == [type |-> "Command", path |-> path]

\* the ids a menu activation can carry: those of the items (1..MaxCmds at
\* most) and, on either side, ids no item has
MenuIds == 0..(MaxCmds + 1)

\* WEvent::MenuEvent { menu_id, .. }
MenuEvent(menu_id) ==
    /\ Delivering
    /\ LET command == CommandMapGet(command_map, menu_id)
       IN IF command # None
          THEN /\ Len(dispatched) < MaxEvents
               /\ Process(Command(command[1]))
          ELSE UNCHANGED dispatched
    /\ Handled([type |-> "MenuEvent", menu_id |-> menu_id])
    /\ UNCHANGED <<queueVars, menuVars, surfaceVars, scale_factor, mouse_position,
                   mouse_button>>

\* ------------------------------------------------------------------------
\* The keyboard

Chars == {"a"}

\* the KeyPress variants the match names, KeyPress::Character aside
NamedKeys ==
    {"Enter", "Tab", "Space", "ArrowDown", "ArrowLeft", "ArrowRight", "ArrowUp",
     "End", "Home", "PageDown", "PageUp", "Backspace", "Delete", "Escape",
     "F1", "F2", "F3", "F4", "F5", "F6", "F7", "F8", "F9", "F10", "F11", "F12"}

\* some of the KeyPress variants the match does not name
OtherKeys == {"Shift", "Insert", "F13"}

\* event.logical_key
KeyPresses == {<<"Character", c>> : c \in Chars} \cup {<<k>> : k \in NamedKeys \cup OtherKeys}

ElementStates == {"Pressed", "Released"}

\* a mutant: every key is given on
LogicalKeyAny(k) == Some(k)

\* match event.logical_key { KeyPress::Character(c) => Some(Key::Character(c)),
\*                           KeyPress::Enter => Some(Key::Enter), .., _ => None }
LogicalKey(k) ==
    CASE k[1] = "Character" -> Some(k)
      [] k[1] \in NamedKeys -> Some(k)
      [] OTHER              -> None

\* Event::Key(key)
KeyEvent(key) == [type |-> "Key", key |-> key]

\* WindowEvent::KeyboardInput { event, .. }; event.repeat is not read
KeyboardInput(state, logical_key, repeat) ==
    /\ Delivering
    /\ IF state = "Pressed"
       THEN LET key == LogicalKey(logical_key)
            IN IF key # None
               THEN /\ Len(dispatched) < MaxEvents
                    /\ Process(KeyEvent(key[1]))
               ELSE UNCHANGED dispatched
       ELSE UNCHANGED dispatched
    /\ Handled([type |-> "KeyboardInput", state |-> state, key |-> logical_key,
                repeat |-> repeat])
    /\ UNCHANGED <<queueVars, menuVars, surfaceVars, scale_factor, mouse_position,
                   mouse_button>>

\* ------------------------------------------------------------------------
\* Specifications

\* the loop with background threads calling on_main
Init ==
    /\ InitMenuBuilt
    /\ InitLoopIdle
    /\ InitSurfaceIdle
    /\ InitPointerIdle
    /\ last = [type |-> "Startup"]

Next ==
    \/ \E t \in Threads : \E c \in BOOLEAN : OnMainPush(t, c)
    \/ \E t \in Threads : OnMainWake(t)
    \/ UserEvent
    \/ DrainPop
    \/ ItemReturns
    \/ ItemCallsOnMain
    \/ MainEventsCleared
    \/ RedrawRequested
    \/ CloseRequested
    \/ LoopDestroyed

Spec == Init /\ [][Next]_vars

\* the surface: any startup size, resizes and redraws.  A PhysicalSize<u32> is
\* what the window system reports, 0 included (the resize arm clamps for it).
Dims == 0..MaxDim

SurfaceInit ==
    /\ InitMenuBuilt
    /\ InitLoopIdle
    /\ \E w, h \in Dims :
          /\ config = [width |-> w, height |-> h]
          /\ surface = [width |-> w, height |-> h]
    /\ redraw_requested = FALSE
    /\ rendered = None
    /\ InitPointerIdle
    /\ last = [type |-> "Startup"]

SurfaceNext ==
    \/ \E k \in ResizeKinds : \E w, h \in Dims : Resized(k, w, h)
    \/ RedrawRequested
    \/ MainEventsCleared

SurfaceSpec == SurfaceInit /\ [][SurfaceNext]_vars

\* the pointer: any scale factor and surface height, presses, releases, moves
Scales == {1, 2}

PointerInit ==
    /\ InitMenuBuilt
    /\ InitLoopIdle
    /\ \E h \in 1..MaxDim :
          /\ config = [width |-> 1, height |-> h]
          /\ surface = [width |-> 1, height |-> h]
    /\ redraw_requested = FALSE
    /\ rendered = None
    /\ scale_factor \in Scales
    /\ mouse_position = Zero
    /\ mouse_button = None
    /\ dispatched = <<>>
    /\ last = [type |-> "Startup"]

PointerNext ==
    \/ \E s \in {"Pressed", "Released"} : \E b \in Buttons : MouseInput(s, b)
    \/ \E x, y \in 0..MaxPos : CursorMoved(x, y)

PointerSpec == PointerInit /\ [][PointerNext]_vars

\* the menu compiler: any command list, then build_menubar
MenuInit ==
    /\ InitMenu
    /\ InitLoopIdle
    /\ InitSurfaceIdle
    /\ InitPointerIdle
    /\ last = [type |-> "Startup"]

MenuNext ==
    BuildMenubar /\ UNCHANGED <<loopVars, surfaceVars, pointerVars, last>>

MenuSpec == MenuInit /\ [][MenuNext]_vars

\* the menu compiler on longer lists: one command more, no accelerators
PlainCommands == {c \in CommandInfo : c.key = None}

LongCommandLists == UNION {[1..n -> PlainCommands] : n \in 0..(MaxCmds + 1)}

LongMenuInit ==
    /\ commands \in LongCommandLists
    /\ items = (0 :> RootItem)
    /\ menu = <<>>
    /\ command_map = <<>>
    /\ built = FALSE
    /\ InitLoopIdle
    /\ InitSurfaceIdle
    /\ InitPointerIdle
    /\ last = [type |-> "Startup"]

LongMenuSpec == LongMenuInit /\ [][MenuNext]_vars

\* menu activations: the menu of any command list is set, then the items are
\* activated
InitMenuOf(cmds) ==
    LET its == BuildItems(cmds)
        m   == MakeMenuRec(its, 0, <<>>, 1)
    IN /\ commands = cmds
       /\ items = its
       /\ menu = m.menu
       /\ command_map = m.command_map
       /\ built = TRUE

ActivationInit ==
    /\ \E cmds \in CommandLists : InitMenuOf(cmds)
    /\ InitLoopIdle
    /\ InitSurfaceIdle
    /\ InitPointerIdle
    /\ last = [type |-> "Startup"]

ActivationNext == \E menu_id \in MenuIds : MenuEvent(menu_id)

ActivationSpec == ActivationInit /\ [][ActivationNext]_vars

\* the keyboard: any key events
KeyInit ==
    /\ InitMenuBuilt
    /\ InitLoopIdle
    /\ InitSurfaceIdle
    /\ InitPointerIdle
    /\ last = [type |-> "Startup"]

KeyNext ==
    \E state \in ElementStates : \E k \in KeyPresses : \E repeat \in BOOLEAN :
        KeyboardInput(state, k, repeat)

KeySpec == KeyInit /\ [][KeyNext]_vars

\* ------------------------------------------------------------------------
\* The work queue and the life of the loop (Spec)

\* C1: the items are executed in the order they were appended: what the drain
\* has executed so far is the front of the append order, nothing skipped and
\* nothing out of turn.
C1_FifoOrder ==
    /\ Len(executed) <= Len(appended)
    /\ executed = SubSeq(appended, 1, Len(executed))

C1_Witness ==
    /\ executed = <<1, 2, 3>>
    /\ pc = "idle"
    /\ queue = <<>>

\* C2: while the loop thread executes a work item it does not hold the
\* GLOBAL_WORK_QUEUE mutex.
C2_LockFreeWhileExecuting == pc = "exec" => lock # "loop"

\* C3: a work item that calls enqueue on the loop thread gets through: the
\* loop thread never ends up stuck on, or killed by, the queue lock it holds.
C3_EnqueueFromItemCompletes == pc \notin {"deadlock", "panic"}

\* C4: once CloseRequested has been handled the closure does nothing more:
\* no event handled but the end of the loop, no work item executed, no render,
\* nothing given to the view tree.
C4_CloseIsTerminal ==
    [][exiting =>
          /\ last'.type \in {"CloseRequested", "LoopDestroyed"}
          /\ pc' = "idle"
          /\ executed' = executed
          /\ rendered' = rendered
          /\ dispatched' = dispatched]_vars

\* C13: when the item being executed enqueues an item, the enqueue goes
\* through and the drain goes on with the item it is executing: the new item
\* is at the back of the queue, not executed, with its wake signal pending for
\* a later drain.
C13_ItemEnqueuedInDrainWaits ==
    [][(pc = "exec" /\ cur # None /\ cur[1].calls_on_main /\ <<pc, cur>>' # <<pc, cur>>)
          => /\ pc' = "exec"
             /\ Len(queue') = Len(queue) + 1
             /\ \A i \in DOMAIN executed' : executed'[i] # queue'[Len(queue')].id
             /\ wakes' = wakes + 1]_vars

\* the threads are between two calls of on_main and the loop thread has
\* nothing left that it can do for the queue: it waits with no wake signal
\* pending, or it will never run again
Settled ==
    /\ \A t \in Threads : tpc[t] = "idle"
    /\ \/ pc = "idle" /\ wakes = 0
       \/ pc \in {"deadlock", "panic"}

\* C14: nothing is lost and nothing runs twice: no item is executed more than
\* once, and while the loop has not been closed, whenever the loop thread has
\* nothing left to do for the queue, the queue is empty and every item that was
\* appended and signalled has been executed.
C14_DrainLosesNothing ==
    /\ \A i, j \in DOMAIN executed : executed[i] = executed[j] => i = j
    /\ (~exiting /\ Settled) => (queue = <<>> /\ executed = appended)

\* ------------------------------------------------------------------------
\* The surface configuration (SurfaceSpec)

\* C8: right after a Resized or ScaleFactorChanged event of size (w, h) the
\* configuration, and the surface configured with it, has width max(w, 1)
\* and height max(h, 1): below 1 becomes exactly 1, 1 or more is unchanged.
C8_ResizeClampsToOne ==
    last.type \in ResizeKinds =>
        /\ config.width = (IF last.width < 1 THEN 1 ELSE last.width)
        /\ config.height = (IF last.height < 1 THEN 1 ELSE last.height)
        /\ config.width # 0 /\ config.height # 0
        /\ surface = config

C8_Witness ==
    /\ last.type = "Resized"
    /\ last.width = 0 /\ last.height = 2
    /\ surface = [width |-> 1, height |-> 2]

\* C9: every configuration the surface is configured with, the one made at
\* startup included, has width >= 1 and height >= 1.
C9_ConfiguredAtLeastOne == surface.width >= 1 /\ surface.height >= 1

\* C17: right after a resize nothing has been given to the view tree, the
\* surface is configured with the (clamped) size of the event and a redraw is
\* requested; right after a RedrawRequested the render has used the size the
\* surface was last configured with, by the most recent resize or at startup,
\* with or without an update in between.
C17_RenderUsesCurrentConfig ==
    /\ last.type \in ResizeKinds =>
           /\ dispatched = <<>>
           /\ surface = [width  |-> (IF last.width < 1 THEN 1 ELSE last.width),
                         height |-> (IF last.height < 1 THEN 1 ELSE last.height)]
           /\ config = surface
           /\ redraw_requested
    /\ last.type = "MainEventsCleared" => config = surface
    /\ last.type = "RedrawRequested" =>
           /\ rendered = Some(surface)
           /\ config = surface
           /\ dispatched = <<>>

\* a render after a resize to a size that is not the typical one
C17_Witness ==
    /\ last.type = "RedrawRequested"
    /\ rendered = Some([width |-> 2, height |-> 1])
    /\ surface = [width |-> 2, height |-> 1]

\* ------------------------------------------------------------------------
\* The pointer (PointerSpec)

Max(S) == CHOOSE x \in S : \A y \in S : x >= y

\* the position of the last TouchMove given to the view tree before the i-th
\* event, the origin if there was none
LastMovePosition(i) ==
    LET moves == {j \in 1..(i - 1) : dispatched[j].type = "TouchMove"}
    IN IF moves = {} THEN [x |-> <<0, 1>>, y |-> <<0, 1>>]
       ELSE dispatched[Max(moves)].position

\* C10: a press gives TouchBegin, a release TouchEnd, both with identifier 0
\* and the position of the most recent cursor move (the origin if none), which
\* is (x / scale, (height - y) / scale); a release right after a press has the
\* press's position; a press of left, right or middle sets the tracked button
\* and a release clears it.
C10_ButtonEventsAtLastCursorPosition ==
    /\ \A i \in 1..Len(dispatched) :
          dispatched[i].type \in {"TouchBegin", "TouchEnd"} =>
             /\ dispatched[i].id = 0
             /\ dispatched[i].position = LastMovePosition(i)
    /\ \A i \in 1..(Len(dispatched) - 1) :
          (dispatched[i].type = "TouchBegin" /\ dispatched[i + 1].type = "TouchEnd") =>
             dispatched[i + 1].position = dispatched[i].position
    /\ last.type = "CursorMoved" =>
          /\ dispatched[Len(dispatched)].type = "TouchMove"
          /\ dispatched[Len(dispatched)].position = mouse_position
          /\ mouse_position.x[1] * scale_factor = last.x * mouse_position.x[2]
          /\ mouse_position.y[1] * scale_factor = (config.height - last.y) * mouse_position.y[2]
    /\ (last.type = "MouseInput" /\ last.state = "Pressed") =>
          /\ dispatched[Len(dispatched)].type = "TouchBegin"
          /\ last.button = "Left" => mouse_button = <<"Left">>
          /\ last.button = "Right" => mouse_button = <<"Right">>
          /\ last.button = "Middle" => mouse_button = <<"Center">>
    /\ (last.type = "MouseInput" /\ last.state = "Released") =>
          /\ dispatched[Len(dispatched)].type = "TouchEnd"
          /\ mouse_button = <<>>

C10_Witness ==
    /\ Len(dispatched) = 3
    /\ dispatched[1].type = "TouchMove"
    /\ dispatched[1].position = [x |-> <<1, 2>>, y |-> <<1, 1>>]
    /\ dispatched[2] = [type |-> "TouchBegin", id |-> 0, position |-> dispatched[1].position]
    /\ dispatched[3] = [type |-> "TouchEnd", id |-> 0, position |-> dispatched[1].position]
    /\ last = [type |-> "MouseInput", state |-> "Released", button |-> "Left"]
    /\ mouse_button = <<>>

\* C11: a press of a button other than left, right or middle gives the view
\* tree nothing: the handler of such a press leaves the dispatched events as
\* they were.
C11_UnsupportedButtonDropped ==
    [][(last'.type = "MouseInput" /\ last'.state = "Pressed" /\ last'.button = "Other")
          => dispatched' = dispatched]_vars

\* ------------------------------------------------------------------------
\* The keyboard (KeySpec)

\* the keys of the closed set
ClosedSet ==
    {<<"Character", "a">>, <<"Enter">>, <<"Tab">>, <<"Space">>,
     <<"ArrowUp">>, <<"ArrowDown">>, <<"ArrowLeft">>, <<"ArrowRight">>,
     <<"Home">>, <<"End">>, <<"PageUp">>, <<"PageDown">>,
     <<"Backspace">>, <<"Delete">>, <<"Escape">>,
     <<"F1">>, <<"F2">>, <<"F3">>, <<"F4">>, <<"F5">>, <<"F6">>,
     <<"F7">>, <<"F8">>, <<"F9">>, <<"F10">>, <<"F11">>, <<"F12">>}

\* C18: a key event gives the view tree one Key event, of the same key, when
\* it is a press of a key of the closed set, and nothing otherwise (a release,
\* a press of another key); no key event changes anything else of the loop or
\* the application.
C18_KeyPressOnlyForClosedSet ==
    [][last'.type = "KeyboardInput" =>
          /\ UNCHANGED <<menuVars, queueVars, surfaceVars, scale_factor,
                         mouse_position, mouse_button, exiting, destroyed, pc>>
          /\ IF last'.state = "Pressed" /\ last'.key \in ClosedSet
             THEN dispatched' = Append(dispatched, [type |-> "Key", key |-> last'.key])
             ELSE dispatched' = dispatched]_vars

\* Enter was pressed, then a key outside the closed set was pressed
C18_Witness ==
    /\ last.type = "KeyboardInput"
    /\ last.state = "Pressed"
    /\ last.key = <<"F13">>
    /\ dispatched = << [type |-> "Key", key |-> <<"Enter">>] >>

\* ------------------------------------------------------------------------
\* Menu activations (ActivationSpec)

\* C12: the activation of an id that is not in the command map gives the view
\* tree nothing and changes nothing of the application (the menu, the map, the
\* queue, the surface, the pointer); the activation of an id that is in the map
\* gives the view tree exactly one Command event, with the path the map holds
\* for the id.
C12_MenuActivation ==
    [][last'.type = "MenuEvent" =>
          /\ UNCHANGED <<menuVars, queueVars, surfaceVars, scale_factor,
                         mouse_position, mouse_button, exiting, destroyed, pc>>
          /\ IF last'.menu_id \in DOMAIN command_map
             THEN dispatched' = Append(dispatched,
                      [type |-> "Command", path |-> command_map[last'.menu_id]])
             ELSE dispatched' = dispatched]_vars

\* a command was activated and then an id that no item has
C12_Witness ==
    /\ last.type = "MenuEvent"
    /\ last.menu_id \notin DOMAIN command_map
    /\ Len(dispatched) = 1
    /\ dispatched[1].type = "Command"
    /\ \E id \in DOMAIN command_map : dispatched[1].path = command_map[id]

\* ------------------------------------------------------------------------
\* The menu compiler (MenuSpec)

\* Reading the arena and the menu in the properties

Nodes  == DOMAIN items \ {0}
Leaves == {n \in Nodes : items[n].submenu = <<>>}

Parent(n) ==
    CHOOSE v \in DOMAIN items : \E k \in 1..Len(items[v].submenu) : items[v].submenu[k] = n

\* the segment names from the root down to node n
RECURSIVE NamePath(_)
NamePath(n) == IF n = 0 THEN <<>> ELSE Append(NamePath(Parent(n)), items[n].name)

\* the menu entry reached by following the names from the menu bar; the first
\* entry of the menu bar is the application submenu
RECURSIVE EntryAt(_, _, _)
EntryAt(m, names, k) ==
    LET first == IF k = 1 THEN 2 ELSE 1
        hits  == {e \in first..Len(m) : m[e].kind # "native" /\ m[e].name = names[k]}
    IN IF hits = {} THEN None
       ELSE LET e == m[Min(hits)]
            IN IF k = Len(names) THEN Some(e)
               ELSE IF e.kind = "submenu" THEN EntryAt(e.menu, names, k + 1)
               ELSE None

\* the entries of a menu, submenus and their entries included
RECURSIVE CountEntries(_)
CountFrom(m, k) ==
    IF k > Len(m) THEN 0
    ELSE 1 + (IF m[k].kind = "submenu" THEN CountEntries(m[k].menu) ELSE 0)
RECURSIVE SumEntries(_, _)
SumEntries(m, k) == IF k > Len(m) THEN 0 ELSE CountFrom(m, k) + SumEntries(m, k + 1)
CountEntries(m) == SumEntries(m, 1)

Segments(c) == Split(commands[c].path)

\* the distinct non-empty segment prefixes of the commands
Prefixes ==
    UNION {{SubSeq(Segments(c), 1, k) : k \in 1..Len(Segments(c))} : c \in 1..Len(commands)}

\* C5: every leaf of the arena is an item of the menu whose identity the
\* CommandMap maps to the colon-joined names on the leaf's root path, and that
\* string is the path of a command of the list.
C5_LeafMapsToOriginalPath ==
    built =>
        \A n \in Leaves :
            LET p == NamePath(n)
                e == EntryAt(menu, p, 1)
            IN /\ e # None
               /\ e[1].kind = "item"
               /\ e[1].id \in DOMAIN command_map
               /\ command_map[e[1].id] = Join(p)
               /\ \E c \in 1..Len(commands) : commands[c].path = Join(p)

C5_Witness ==
    /\ built
    /\ Cardinality(Leaves) >= 2
    /\ \E n \in Leaves : Len(NamePath(n)) >= 2 /\ Parent(n) # 0
    /\ \E n \in Leaves : command_map[EntryAt(menu, NamePath(n), 1)[1].id] = <<"a", Delim, "a">>

\* C6: build_menubar creates exactly one node per distinct segment prefix of
\* the commands, and the menu has exactly one entry per prefix: commands that
\* share a prefix of k segments pass through the same k nodes.
C6_OneNodePerPrefix ==
    built =>
        LET path == [n \in Nodes |-> NamePath(n)]
        IN
        /\ \A p \in Prefixes : Cardinality({n \in Nodes : path[n] = p}) = 1
        /\ \A n \in Nodes : path[n] \in Prefixes
        /\ CountEntries(menu) = 3 + Cardinality(Prefixes)

\* two commands File:New and File:Open: one submenu with two leaves
C6_Witness ==
    /\ built
    /\ Len(commands) = 2
    /\ Len(Segments(1)) = 2 /\ Len(Segments(2)) = 2
    /\ Segments(1)[1] = Segments(2)[1]
    /\ Segments(1)[2] # Segments(2)[2]
    /\ Cardinality(Nodes) = 3
    /\ Cardinality(Leaves) = 2

\* C7: for the empty command list the menu is the application submenu (About,
\* Quit) alone, the arena has no node but the root and the CommandMap is empty.
C7_EmptyListOnlyAppMenu ==
    (built /\ commands = <<>>) =>
        /\ menu = << [kind |-> "submenu", name |-> <<"r", "u", "i">>, enabled |-> TRUE,
                      menu |-> << [kind |-> "native", item |-> "About"],
                                  [kind |-> "native", item |-> "Quit"] >>] >>
        /\ Nodes = {}
        /\ DOMAIN command_map = {}

C7_Witness == built /\ commands = <<>> /\ Len(menu) = 1

\* C15: a node is a leaf exactly when the colon-joined names on its root path
\* are the path of a command of the list, and every command of the list has a
\* leaf with its path and an entry of the CommandMap with its path.
C15_LeafIffCommand ==
    built =>
        LET path == [n \in Nodes |-> Join(NamePath(n))]
        IN /\ \A n \in Nodes :
                  n \in Leaves <=> \E c \in 1..Len(commands) : commands[c].path = path[n]
           /\ \A c \in 1..Len(commands) :
                  /\ \E n \in Leaves : path[n] = commands[c].path
                  /\ \E id \in DOMAIN command_map : command_map[id] = commands[c].path

\* C16: a path that occurs more than once in the list has exactly one leaf and
\* exactly one entry of the CommandMap, and the CommandMap has as many entries
\* as the arena has leaves.
C16_DuplicatePathsOneLeaf ==
    built =>
        LET path == [n \in Nodes |-> Join(NamePath(n))]
        IN /\ \A c, d \in 1..Len(commands) :
                  (c < d /\ commands[c].path = commands[d].path) =>
                      /\ Cardinality({n \in Leaves : path[n] = commands[c].path}) = 1
                      /\ Cardinality({id \in DOMAIN command_map :
                                         command_map[id] = commands[c].path}) = 1
           /\ Cardinality(DOMAIN command_map) = Cardinality(Leaves)

\* C19: a leaf holds the CommandInfo of the first command of the list that
\* has the leaf's path, and the menu item of the leaf has the accelerator of
\* that first command's key (none when it has no key), whatever the keys of
\* the later commands with the same path.
C19_FirstOccurrenceKeepsAttributes ==
    built =>
        \A n \in Leaves :
            LET p     == NamePath(n)
                occ   == {c \in 1..Len(commands) : commands[c].path = Join(p)}
                e     == EntryAt(menu, p, 1)
            IN /\ occ # {}
               /\ items[n].command = commands[Min(occ)]
               /\ e # None
               /\ e[1].kind = "item"
               /\ e[1].accel = (IF commands[Min(occ)].key = None THEN None
                                ELSE Some([mods |-> "SUPER",
                                           key |-> commands[Min(occ)].key[1]]))

\* the same path twice, with a key the first time and without the second
C19_Witness ==
    /\ built
    /\ Len(commands) = 2
    /\ commands[1].path = commands[2].path
    /\ commands[1].key = Some("KeyA")
    /\ commands[2].key = None
    /\ Cardinality(Leaves) = 1
    /\ \E n \in Leaves :
           /\ items[n].command = commands[1]
           /\ EntryAt(menu, NamePath(n), 1)[1].accel = Some([mods |-> "SUPER", key |-> "KeyA"])

\* the menu built for node v: the menu bar after the application submenu for
\* the root, the submenu of the node's entry otherwise
MenuOf(v) ==
    IF v = 0 THEN SubSeq(menu, 2, Len(menu))
    ELSE LET e == EntryAt(menu, NamePath(v), 1)
         IN IF e # None /\ e[1].kind = "submenu" THEN e[1].menu ELSE <<>>

\* the first command of the list whose path passes through the names p
FirstThrough(p) ==
    Min({c \in 1..Len(commands) :
            Len(Segments(c)) >= Len(p) /\ SubSeq(Segments(c), 1, Len(p)) = p})

\* C20: the arena is a tree: every node but the root is the child of exactly
\* one node, once, and that node has a smaller index; the root is nobody's
\* child; the children of a node have different names.  The menu has exactly
\* one entry per node, and the entries of a node's menu are its children in
\* the order in which their names first appear in the command list.
C20_ArenaIsTree ==
    built =>
        LET path == [n \in DOMAIN items |-> NamePath(n)]
        IN /\ \A n \in Nodes :
                  /\ Cardinality({v \in DOMAIN items :
                        \E k \in 1..Len(items[v].submenu) : items[v].submenu[k] = n}) = 1
                  /\ Parent(n) < n
           /\ \A v \in DOMAIN items :
                  LET sub == items[v].submenu
                      m   == MenuOf(v)
                  IN /\ \A k \in 1..Len(sub) : sub[k] \in Nodes
                     /\ \A j, k \in 1..Len(sub) :
                            j < k => /\ sub[j] # sub[k]
                                     /\ items[sub[j]].name # items[sub[k]].name
                                     /\ FirstThrough(path[sub[j]]) < FirstThrough(path[sub[k]])
                     /\ Len(m) = Len(sub)
                     /\ \A k \in 1..Len(sub) :
                            /\ m[k].kind # "native"
                            /\ m[k].name = items[sub[k]].name
           /\ CountEntries(menu) = 3 + Cardinality(Nodes)

\* one submenu of the menu bar with two items
C20_Witness ==
    /\ built
    /\ Cardinality(Nodes) = 3
    /\ Len(items[0].submenu) = 1
    /\ Len(items[1].submenu) = 2
    /\ items[1].submenu = <<2, 3>>
    /\ items[2].name # items[3].name

====
